---- MODULE Spec2Model ----
(***************************************************************************)
(* Model of the pix crate: the raster / region layer (src/src/raster.rs)   *)
(* and the pixel conversion layer (src/src/pixel.rs, src/src/hwb.rs,       *)
(* src/src/clr/matte.rs).                                                  *)
(*                                                                         *)
(* Machine integers keep their width.  An i32 is a TLA+ integer in         *)
(* I32_MIN..I32_MAX.  A u32 is the record [top, low] that stands for the   *)
(* number top * 2^31 + low, and a usize is the record [blk, n] (see        *)
(* UsizeFromI32).  The arithmetic operators below never form an            *)
(* intermediate value outside the i32 range.                               *)
(*                                                                         *)
(* Rust's integer overflow and debug_assert! depend on the build profile:  *)
(* with debug assertions / overflow checks the operation panics, without   *)
(* them the arithmetic wraps and the assertion is compiled out.  The       *)
(* variable `debug` holds the profile; both profiles are explored.         *)
(***************************************************************************)
EXTENDS Integers, Sequences, FiniteSets, TLC

VARIABLES
    debug,  \* build profile: debug assertions and overflow checks enabled
    dst,    \* the raster the calls act on (`self`)
    src,    \* the source raster of composite_raster
    last,   \* the last call: its arguments, the raster before it, its result
    nops,   \* number of calls made so far
    rows,   \* the row iterator (Rows / RowsMut) over dst that is in use
    cvt     \* the last pixel-level call: its arguments and its result

vars == <<debug, dst, src, last, nops, rows, cvt>>

----------------------------------------------------------------------------
(* Bounds of the exploration.                                              *)

\* raster widths and heights explored: 0..MaxDim
MaxDim == 2

\* calls in one run of the raster life cycle
MaxOps == 2

----------------------------------------------------------------------------
(* Machine integers.                                                       *)

I32_MAX == 2147483647

I32_MIN == (-I32_MAX) - 1

Min(a, b) == IF a <= b THEN a ELSE b

Max(a, b) == IF a >= b THEN a ELSE b

\* a + b leaves the i32 range
AddOverflows(a, b) ==
    IF b >= 0 THEN a > I32_MAX - b ELSE a < I32_MIN - b

\* i32::wrapping_add: a + b modulo 2^32
WrapAdd(a, b) ==
    IF ~AddOverflows(a, b) THEN a + b
    ELSE IF b >= 0 THEN (a + I32_MIN) + (b + I32_MIN)
    ELSE (a - I32_MIN) + (b - I32_MIN)

\* a - b leaves the i32 range
SubOverflows(a, b) ==
    IF b >= 0 THEN a < I32_MIN + b ELSE a > I32_MAX + b

\* i32::wrapping_sub: a - b modulo 2^32
WrapSub(a, b) ==
    IF ~SubOverflows(a, b) THEN a - b
    ELSE IF b < 0 THEN (a + I32_MIN) - (b - I32_MIN)
    ELSE (a - I32_MIN) - (b + I32_MIN)

\* a * b leaves the i32 range (a >= 0)
MulOverflows(a, b) ==
    /\ a > 0
    /\ IF b >= 0 THEN b > I32_MAX \div a
       ELSE b < ((I32_MIN + a) - 1) \div a

\* i32::wrapping_mul: a * b modulo 2^32 (a >= 0); when the product leaves
\* the i32 range it is computed by doubling: with h = (a \div 2) * b, the
\* product is h + h, plus b when a is odd
RECURSIVE WrapMul(_, _)
WrapMul(a, b) ==
    IF ~MulOverflows(a, b) THEN a * b
    ELSE CHOOSE p \in {IF a % 2 = 1 THEN WrapAdd(WrapAdd(h, h), b)
                       ELSE WrapAdd(h, h) :
                           h \in {WrapMul(a \div 2, b)}} : TRUE

\* i32::saturating_add
SaturatingAdd(a, b) ==
    IF ~AddOverflows(a, b) THEN a + b
    ELSE IF b >= 0 THEN I32_MAX ELSE I32_MIN

\* i32::abs overflows exactly on i32::MIN
AbsOverflows(a) == a = I32_MIN

\* i32::abs with wrapping: abs(i32::MIN) = i32::MIN
WrapAbs(a) == IF a = I32_MIN THEN I32_MIN ELSE IF a < 0 THEN -a ELSE a

\* a u32 value top * 2^31 + low
U32(top, low) == [top |-> top, low |-> low]

\* `i as u32`: two's complement reinterpretation of an i32
AsU32(i) == IF i >= 0 THEN U32(0, i) ELSE U32(1, i - I32_MIN)

\* i32::try_from(u).is_ok()
TryFromOk(u) == u.top = 0

\* i32::try_from(u).unwrap_or(0)
TryFromOr0(u) == IF u.top = 0 THEN u.low ELSE 0

U32Less(a, b) == a.top < b.top \/ (a.top = b.top /\ a.low < b.low)

\* faulty variant of U32Min: the larger of the two
U32Min_Larger(a, b) == IF U32Less(b, a) THEN a ELSE b

\* u32::min
U32Min(a, b) == IF U32Less(b, a) THEN b ELSE a

\* u > 0
U32Positive(u) == u.top > 0 \/ u.low > 0

\* `i as usize` on a 64-bit target: sign extension.  blk 0 is the value n,
\* blk 2 is the value 2^64 - 2^31 + n (a negative i32 sign-extended).
UsizeFromI32(i) ==
    IF i >= 0 THEN [blk |-> 0, n |-> i] ELSE [blk |-> 2, n |-> i - I32_MIN]

\* `u as usize`: zero extension.  blk 1 is the value 2^31 + n.
UsizeFromU32(u) == [blk |-> u.top, n |-> u.low]

----------------------------------------------------------------------------
(* Channels (Ch8, Ch16).  A channel value is an integer in 0 .. ChMax of   *)
(* its width; `bits` is the width, 8 or 16.  The 32-bit floating point     *)
(* channel Ch32 is not modelled.                                           *)

\* Channel::MAX of Ch8 and of Ch16
ChMax(bits) == IF bits = 8 THEN 255 ELSE 65535

\* Channel + Channel: saturating at MAX
ChAdd(bits, a, b) == Min(a + b, ChMax(bits))

\* Channel - Channel: saturating at MIN
ChSub(bits, a, b) == Max(a - b, 0)

\* Channel * Channel.  Ch8: both operands are widened to 12 bits by
\* replicating their high 4 bits, and the 24-bit product is shifted right
\* by 16.  Ch16: the same with 24-bit operands and a shift by 32; the
\* 48-bit product is formed from 12-bit limbs, A * 2^24 + B * 2^12 + C.
ChMul(bits, a, b) ==
    IF bits = 8
    THEN (((a * 16) + (a \div 16)) * ((b * 16) + (b \div 16))) \div 65536
    ELSE LET l == (a * 256) + (a \div 256)
             r == (b * 256) + (b \div 256)
             A == (l \div 4096) * (r \div 4096)
             B == ((l \div 4096) * (r % 4096)) + ((l % 4096) * (r \div 4096))
             C == (l % 4096) * (r % 4096)
         IN  (A + ((B + (C \div 4096)) \div 4096)) \div 256

\* Channel / Channel: (a << width) / b, clamped to MAX; 0 when b is 0.
\* Ch16: for a < b the 32-bit dividend is divided in two 8-bit steps.
ChDiv(bits, a, b) ==
    IF b = 0 THEN 0
    ELSE IF bits = 8 THEN Min((a * 256) \div b, 255)
    ELSE IF a >= b THEN 65535
    ELSE (((a * 256) \div b) * 256) + ((((a * 256) % b) * 256) \div b)

\* D::Chan::from(c) for a channel c of width sbits: Ch16 from Ch8
\* replicates the 8 bits, Ch8 from Ch16 keeps the high 8 bits
ChanFrom(sbits, dbits, c) ==
    IF sbits = dbits THEN c
    ELSE IF sbits = 8 THEN (c * 256) + c
    ELSE c \div 256

\* the sRGB transfer curve at 8 bits: DecodeSrgb8[c + 1] is the linear
\* value of the sRGB-encoded value c, EncodeSrgb8[c + 1] the sRGB encoding
\* of the linear value c
DecodeSrgb8 ==
    <<0, 0, 0, 0, 0, 0, 0, 1, 1, 1, 1, 1, 1, 1, 1, 1,
      1, 1, 2, 2, 2, 2, 2, 2, 2, 2, 3, 3, 3, 3, 3, 3,
      4, 4, 4, 4, 4, 5, 5, 5, 5, 6, 6, 6, 6, 7, 7, 7,
      8, 8, 8, 8, 9, 9, 9, 10, 10, 10, 11, 11, 12, 12, 12, 13,
      13, 13, 14, 14, 15, 15, 16, 16, 17, 17, 17, 18, 18, 19, 19, 20,
      20, 21, 22, 22, 23, 23, 24, 24, 25, 25, 26, 27, 27, 28, 29, 29,
      30, 30, 31, 32, 32, 33, 34, 35, 35, 36, 37, 37, 38, 39, 40, 41,
      41, 42, 43, 44, 45, 45, 46, 47, 48, 49, 50, 51, 51, 52, 53, 54,
      55, 56, 57, 58, 59, 60, 61, 62, 63, 64, 65, 66, 67, 68, 69, 70,
      71, 72, 73, 74, 76, 77, 78, 79, 80, 81, 82, 84, 85, 86, 87, 88,
      90, 91, 92, 93, 95, 96, 97, 99, 100, 101, 103, 104, 105, 107, 108, 109,
      111, 112, 114, 115, 116, 118, 119, 121, 122, 124, 125, 127, 128, 130, 131, 133,
      134, 136, 138, 139, 141, 142, 144, 146, 147, 149, 151, 152, 154, 156, 157, 159,
      161, 163, 164, 166, 168, 170, 171, 173, 175, 177, 179, 181, 183, 184, 186, 188,
      190, 192, 194, 196, 198, 200, 202, 204, 206, 208, 210, 212, 214, 216, 218, 220,
      222, 224, 226, 229, 231, 233, 235, 237, 239, 242, 244, 246, 248, 250, 253, 255>>

EncodeSrgb8 ==
    <<0, 13, 22, 28, 34, 38, 42, 46, 50, 53, 56, 59, 61, 64, 66, 69,
      71, 73, 75, 77, 79, 81, 83, 85, 86, 88, 90, 92, 93, 95, 96, 98,
      99, 101, 102, 104, 105, 106, 108, 109, 110, 112, 113, 114, 115, 117, 118, 119,
      120, 121, 122, 124, 125, 126, 127, 128, 129, 130, 131, 132, 133, 134, 135, 136,
      137, 138, 139, 140, 141, 142, 143, 144, 145, 146, 147, 148, 148, 149, 150, 151,
      152, 153, 154, 155, 155, 156, 157, 158, 159, 159, 160, 161, 162, 163, 163, 164,
      165, 166, 167, 167, 168, 169, 170, 170, 171, 172, 173, 173, 174, 175, 175, 176,
      177, 178, 178, 179, 180, 180, 181, 182, 182, 183, 184, 185, 185, 186, 187, 187,
      188, 189, 189, 190, 190, 191, 192, 192, 193, 194, 194, 195, 196, 196, 197, 197,
      198, 199, 199, 200, 200, 201, 202, 202, 203, 203, 204, 205, 205, 206, 206, 207,
      208, 208, 209, 209, 210, 210, 211, 212, 212, 213, 213, 214, 214, 215, 215, 216,
      216, 217, 218, 218, 219, 219, 220, 220, 221, 221, 222, 222, 223, 223, 224, 224,
      225, 226, 226, 227, 227, 228, 228, 229, 229, 230, 230, 231, 231, 232, 232, 233,
      233, 234, 234, 235, 235, 236, 236, 237, 237, 238, 238, 238, 239, 239, 240, 240,
      241, 241, 242, 242, 243, 243, 244, 244, 245, 245, 246, 246, 246, 247, 247, 248,
      248, 249, 249, 250, 250, 251, 251, 251, 252, 252, 253, 253, 254, 254, 255, 255>>

\* gamma::Mode::to_linear (computed at 8 bits)
GammaToLinear(gamma, c) == IF gamma = "srgb" THEN DecodeSrgb8[c + 1] ELSE c

\* gamma::Mode::from_linear (computed at 8 bits)
GammaFromLinear(gamma, c) == IF gamma = "srgb" THEN EncodeSrgb8[c + 1] ELSE c

\* alpha::Mode::decode: premultiplied color / alpha; straight: unchanged
AlphaDecode(mode, bits, c, a) ==
    IF mode = "premultiplied" THEN ChDiv(bits, c, a) ELSE c

\* alpha::Mode::encode: color * alpha for premultiplied; straight: unchanged
AlphaEncode(mode, bits, c, a) ==
    IF mode = "premultiplied" THEN ChMul(bits, c, a) ELSE c

----------------------------------------------------------------------------
(* Pixel formats.  A format is a color model ("rgb", "hwb"), a channel     *)
(* width, an alpha mode ("straight", "premultiplied") and a gamma mode     *)
(* ("linear", "srgb"); two formats are the same Rust type exactly when     *)
(* they are equal.  Every format here has an alpha channel.  A pixel is a  *)
(* record of channels: [red, green, blue, alpha] or                        *)
(* [hue, whiteness, blackness, alpha].                                     *)

Format(model, bits, alpha, gamma) ==
    [model |-> model, bits |-> bits, alpha |-> alpha, gamma |-> gamma]

\* Rgb::new
Rgb(red, green, blue, alpha) ==
    [red |-> red, green |-> green, blue |-> blue, alpha |-> alpha]

\* Hwb::new
Hwb(hue, whiteness, blackness, alpha) ==
    [hue |-> hue, whiteness |-> whiteness, blackness |-> blackness,
     alpha |-> alpha]

\* hue::Hexcone::from_hue_prime and Hexcone::rgb: the hue, as the fraction
\* hue / MAX of a turn, lies in sector (6 * hue) \div MAX of the hexcone, at
\* the fraction ((6 * hue) % MAX) / MAX of the sector; the secondary
\* component is chroma times that fraction (even sectors) or its
\* complement (odd sectors).  A hue of MAX falls back to the first sector.
HexconeRgb(bits, hue, chroma) ==
    LET h == (6 * hue) \div ChMax(bits)
        hf == IF h = 6 THEN 0 ELSE (6 * hue) % ChMax(bits)
        secondary == IF h % 2 = 0 THEN ChMul(bits, chroma, hf)
                     ELSE ChMul(bits, chroma, ChMax(bits) - hf)
    IN  CASE h = 1 -> <<secondary, chroma, 0>>
          [] h = 2 -> <<0, chroma, secondary>>
          [] h = 3 -> <<0, secondary, chroma>>
          [] h = 4 -> <<secondary, 0, chroma>>
          [] h = 5 -> <<chroma, 0, secondary>>
          [] OTHER -> <<chroma, secondary, 0>>

\* hue::rgb_to_hue_chroma_value: value = max, chroma = max - min, and the
\* hue n / (6 * chroma) of a turn, rounded to the nearest channel value
\* (8-bit channels)
RgbToHueChromaValue(bits, red, green, blue) ==
    LET val == Max(Max(red, green), blue)
        chroma == ChSub(bits, val, Min(Min(red, green), blue))
        n == IF val = red
             THEN IF green >= blue THEN green - blue
                  ELSE (6 * chroma) - (blue - green)
             ELSE IF green = val THEN (2 * chroma) + (blue - red)
             ELSE (4 * chroma) + (red - green)
        hue == IF chroma > 0
               THEN ((2 * ChMax(bits) * n) + (6 * chroma)) \div (12 * chroma)
               ELSE 0
    IN  [hue |-> hue, chroma |-> chroma, val |-> val]

\* faulty variant of WhitenessBlackness: the pair is never rescaled
WhitenessBlackness_NoClamp(bits, p) ==
    [whiteness |-> p.whiteness, blackness |-> p.blackness]

\* Hwb::whiteness_blackness: when whiteness + blackness saturates, both
\* are multiplied by 1 / (whiteness + blackness) and converted back to the
\* channel, which rounds to the nearest value (8-bit channels; the
\* rounding error of the f32 arithmetic is not modelled)
WhitenessBlackness(bits, p) ==
    LET whiteness == p.whiteness
        blackness == p.blackness
        sum == whiteness + blackness
    IN  IF ChSub(bits, ChAdd(bits, whiteness, blackness), blackness)
               < whiteness
        THEN [whiteness |->
                  ((2 * ChMax(bits) * whiteness) + sum) \div (2 * sum),
              blackness |->
                  ((2 * ChMax(bits) * blackness) + sum) \div (2 * sum)]
        ELSE [whiteness |-> whiteness, blackness |-> blackness]

\* Hwb::into_rgba
HwbIntoRgba(bits, p) ==
    LET wb == WhitenessBlackness(bits, p)
        v == ChSub(bits, ChMax(bits), wb.blackness)
        chroma == ChSub(bits, v, wb.whiteness)
        rgb == HexconeRgb(bits, p.hue, chroma)
        m == ChSub(bits, v, chroma)
    IN  <<ChAdd(bits, rgb[1], m), ChAdd(bits, rgb[2], m),
          ChAdd(bits, rgb[3], m), p.alpha>>

\* faulty variant of HwbFromRgba: blackness is the value instead of its
\* complement
HwbFromRgba_BlacknessIsValue(bits, rgba) ==
    LET hcv == RgbToHueChromaValue(bits, rgba[1], rgba[2], rgba[3])
        sat_v == IF hcv.val > 0 THEN ChDiv(bits, hcv.chroma, hcv.val) ELSE 0
        whiteness == ChMul(bits, ChSub(bits, ChMax(bits), sat_v), hcv.val)
    IN  Hwb(hcv.hue, whiteness, hcv.val, rgba[4])

\* Hwb::from_rgba
HwbFromRgba(bits, rgba) ==
    LET hcv == RgbToHueChromaValue(bits, rgba[1], rgba[2], rgba[3])
        sat_v == IF hcv.val > 0 THEN ChDiv(bits, hcv.chroma, hcv.val) ELSE 0
        whiteness == ChMul(bits, ChSub(bits, ChMax(bits), sat_v), hcv.val)
        blackness == ChSub(bits, ChMax(bits), hcv.val)
    IN  Hwb(hcv.hue, whiteness, blackness, rgba[4])

\* Hwb::into_channels::<R>: the channel array and the index (from 0) of
\* its alpha channel
HwbIntoChannels(S, R, p) ==
    IF S = R
    THEN [chan |-> <<p.whiteness, p.blackness, p.alpha, p.hue>>, alpha |-> 2]
    ELSE [chan |-> HwbIntoRgba(S.bits, p), alpha |-> 3]

\* faulty variant of HwbFromChannels: the native layout is read as
\* [whiteness, blackness, hue, alpha]
HwbFromChannels_HueBeforeAlpha(dbg, D, R, chan, alpha) ==
    IF D = R
    THEN [ok |-> ~(dbg /\ alpha # 2),
          pixel |-> Hwb(chan[3], chan[1], chan[2], chan[4])]
    ELSE [ok |-> ~(dbg /\ alpha # 3), pixel |-> HwbFromRgba(D.bits, chan)]

\* Hwb::from_channels::<R>.  ok = FALSE: the debug assertion on the alpha
\* index failed.
HwbFromChannels(dbg, D, R, chan, alpha) ==
    IF D = R
    THEN [ok |-> ~(dbg /\ alpha # 2),
          pixel |-> Hwb(chan[4], chan[1], chan[2], chan[3])]
    ELSE [ok |-> ~(dbg /\ alpha # 3), pixel |-> HwbFromRgba(D.bits, chan)]

\* Rgb::into_channels: the canonical layout [red, green, blue, alpha]
RgbIntoChannels(p) ==
    [chan |-> <<p.red, p.green, p.blue, p.alpha>>, alpha |-> 3]

\* Rgb::from_channels
RgbFromChannels(chan) ==
    [ok |-> TRUE, pixel |-> Rgb(chan[1], chan[2], chan[3], chan[4])]

\* self.into_channels::<D>() of a pixel of format S
IntoChannels(S, D, p) ==
    IF S.model = "hwb" THEN HwbIntoChannels(S, D, p) ELSE RgbIntoChannels(p)

\* D::from_channels::<S>(chan, alpha)
FromChannels(dbg, D, S, chan, alpha) ==
    IF D.model = "hwb" THEN HwbFromChannels(dbg, D, S, chan, alpha)
    ELSE RgbFromChannels(chan)

\* a pixel of the one-channel Matte model (clr/matte.rs): Pix1::new
Pix1(one) == [one |-> one]

\* Matte::alpha
MatteAlpha(p) == p.one

\* Matte::into_rgba
MatteIntoRgba(bits, p) ==
    LET max == ChMax(bits)
    IN  <<max, max, max, MatteAlpha(p)>>

\* faulty variant of MatteFromRgba: the pixel is made from the red channel
MatteFromRgba_Red(rgba) == Pix1(rgba[1])

\* Matte::from_rgba
MatteFromRgba(rgba) == Pix1(rgba[4])

\* one step applied to a color channel
Step(op, mode) == [op |-> op, mode |-> mode]

\* faulty variant of AlphaGammaSteps: the alpha steps are applied to the
\* gamma-encoded value, before the conversion to linear gamma
AlphaGammaSteps_AlphaFirst(S, D) ==
    (IF S.alpha # D.alpha
     THEN <<Step("decode", S.alpha), Step("encode", D.alpha)>>
     ELSE <<>>)
    \o <<Step("to_linear", S.gamma)>>
    \o <<Step("from_linear", D.gamma)>>

\* faulty variant of AlphaGammaSteps: the color is encoded without being
\* decoded first
AlphaGammaSteps_NoDecode(S, D) ==
    <<Step("to_linear", S.gamma)>>
    \o (IF S.alpha # D.alpha THEN <<Step("encode", D.alpha)>> ELSE <<>>)
    \o <<Step("from_linear", D.gamma)>>

\* convert_alpha_gamma::<S, D>: the steps it applies to each color
\* channel, in order
AlphaGammaSteps(S, D) ==
    <<Step("to_linear", S.gamma)>>
    \o (IF S.alpha # D.alpha
        THEN <<Step("decode", S.alpha), Step("encode", D.alpha)>>
        ELSE <<>>)
    \o <<Step("from_linear", D.gamma)>>

\* the value of color channel c after one step; alpha is the pixel's alpha
ApplyStep(step, bits, c, alpha) ==
    CASE step.op = "to_linear" -> GammaToLinear(step.mode, c)
      [] step.op = "decode" -> AlphaDecode(step.mode, bits, c, alpha)
      [] step.op = "encode" -> AlphaEncode(step.mode, bits, c, alpha)
      [] step.op = "from_linear" -> GammaFromLinear(step.mode, c)

\* the value of color channel c after the steps, applied in order
RECURSIVE ApplySteps(_, _, _, _)
ApplySteps(steps, bits, c, alpha) ==
    IF steps = <<>> THEN c
    ELSE ApplySteps(Tail(steps), bits,
                    ApplyStep(Head(steps), bits, c, alpha), alpha)

\* faulty variant of ConvertSteps: convert_alpha_gamma is called for every
\* pair of formats
ConvertSteps_Always(S, D) == AlphaGammaSteps(S, D)

\* the steps Pixel::convert applies to the color channels after the
\* conversion to the destination channel width
ConvertSteps(S, D) ==
    IF S.alpha # D.alpha \/ S.gamma # D.gamma THEN AlphaGammaSteps(S, D)
    ELSE <<>>

\* faulty variant of Convert: the first channel is passed as the alpha of
\* the alpha steps
Convert_AlphaFromFirst(dbg, S, D, p) ==
    LET into == IntoChannels(S, D, p)
        chan == [i \in 1 .. 4 |-> ChanFrom(S.bits, D.bits, into.chan[i])]
        steps == ConvertSteps(S, D)
        conv == [i \in 1 .. 4 |->
                    IF i <= into.alpha
                    THEN ApplySteps(steps, D.bits, chan[i], chan[1])
                    ELSE chan[i]]
        out == FromChannels(dbg, D, S, conv, into.alpha)
    IN  [ok |-> out.ok, pixel |-> out.pixel, steps |-> steps]

\* faulty variant of Convert: the alpha channel keeps the source width
Convert_AlphaNotWidened(dbg, S, D, p) ==
    LET into == IntoChannels(S, D, p)
        chan == [i \in 1 .. 4 |->
                    IF i = into.alpha + 1 THEN into.chan[i]
                    ELSE ChanFrom(S.bits, D.bits, into.chan[i])]
        out == FromChannels(dbg, D, S, chan, into.alpha)
    IN  [ok |-> out.ok, pixel |-> out.pixel, steps |-> ConvertSteps(S, D)]

\* faulty variant of Convert: the steps are applied to every channel of
\* the array, the alpha channel included
Convert_StepsOnEveryChannel(dbg, S, D, p) ==
    LET into == IntoChannels(S, D, p)
        chan == [i \in 1 .. 4 |-> ChanFrom(S.bits, D.bits, into.chan[i])]
        alpha == chan[into.alpha + 1]
        steps == ConvertSteps(S, D)
        conv == [i \in 1 .. 4 |->
                    ApplySteps(steps, D.bits, chan[i], alpha)]
        out == FromChannels(dbg, D, S, conv, into.alpha)
    IN  [ok |-> out.ok, pixel |-> out.pixel, steps |-> steps]

\* Pixel::convert::<D> of the pixel p of format S.  The channels before
\* the alpha index are the color channels; steps are the steps applied to
\* them.  ok = FALSE: a debug assertion failed.
Convert(dbg, S, D, p) ==
    LET into == IntoChannels(S, D, p)
        chan == [i \in 1 .. 4 |-> ChanFrom(S.bits, D.bits, into.chan[i])]
        alpha == chan[into.alpha + 1]
        steps == ConvertSteps(S, D)
        conv == [i \in 1 .. 4 |->
                    IF i <= into.alpha
                    THEN ApplySteps(steps, D.bits, chan[i], alpha)
                    ELSE chan[i]]
        out == FromChannels(dbg, D, S, conv, into.alpha)
    IN  [ok |-> out.ok, pixel |-> out.pixel, steps |-> steps]

----------------------------------------------------------------------------
(* Region (raster.rs, struct Region).                                      *)

Region(x, y, width, height) ==
    [x |-> x, y |-> y, width |-> width, height |-> height]

\* the value a call that panicked leaves behind
NoRegion == Region(0, 0, 0, 0)

\* Region::new: an extent above i32::MAX is stored as 0
RegionNew(x, y, width, height) ==
    Region(x, y, TryFromOr0(width), TryFromOr0(height))

\* faulty variant of RegionFromUnit: extents of u32::MAX, which Region::new
\* stores as 0
RegionFromUnit_U32Max ==
    RegionNew(0, 0, U32(1, I32_MAX), U32(1, I32_MAX))

\* impl From<()> for Region
RegionFromUnit == RegionNew(0, 0, AsU32(I32_MAX), AsU32(I32_MAX))

\* Region::width
RegionWidth(r) == AsU32(r.width)

\* Region::height
RegionHeight(r) == AsU32(r.height)

\* faulty variant of Right: wrapping instead of saturating addition
Right_Wrapping(r) == WrapAdd(r.x, r.width)

\* Region::right
Right(r) == SaturatingAdd(r.x, r.width)

\* Region::bottom
Bottom(r) == SaturatingAdd(r.y, r.height)

\* faulty variant of RegionIntersection: the left edge is that of `a`
\* instead of the larger of the two left edges
RegionIntersection_LeftOfSelf(dbg, a, b) ==
    LET x0 == a.x
        x1 == Min(Right(a), Right(b))
        y0 == Max(a.y, b.y)
        y1 == Min(Bottom(a), Bottom(b))
    IN  IF dbg /\ (SubOverflows(x1, x0) \/ SubOverflows(y1, y0))
        THEN [ok |-> FALSE, reg |-> NoRegion]
        ELSE [ok |-> TRUE,
              reg |-> RegionNew(x0, y0, AsU32(WrapSub(x1, x0)),
                                AsU32(WrapSub(y1, y0)))]

\* Region::intersection.  ok = FALSE: the call panicked (subtraction
\* overflow under overflow checks).
RegionIntersection(dbg, a, b) ==
    LET x0 == Max(a.x, b.x)
        x1 == Min(Right(a), Right(b))
        y0 == Max(a.y, b.y)
        y1 == Min(Bottom(a), Bottom(b))
    IN  IF dbg /\ (SubOverflows(x1, x0) \/ SubOverflows(y1, y0))
        THEN [ok |-> FALSE, reg |-> NoRegion]
        ELSE [ok |-> TRUE,
              reg |-> RegionNew(x0, y0, AsU32(WrapSub(x1, x0)),
                                AsU32(WrapSub(y1, y0)))]

----------------------------------------------------------------------------
(* Raster (raster.rs, struct Raster).  A pixel is a small integer, the     *)
(* default pixel is 0.  pixels is the row-major buffer, indexed from 1.    *)

Raster(width, height, pixels) ==
    [width |-> width, height |-> height, pixels |-> pixels]

DefaultPixel == 0

\* Raster::intersection.  ok = FALSE: the call panicked.
RasterIntersection(dbg, r, reg) ==
    LET x0 == Max(reg.x, 0)
        x1 == Min(Right(reg), r.width)
        y0 == Max(reg.y, 0)
        y1 == Min(Bottom(reg), r.height)
    IN  IF dbg /\ (SubOverflows(x1, x0) \/ SubOverflows(y1, y0))
        THEN [ok |-> FALSE, reg |-> NoRegion]
        ELSE [ok |-> TRUE,
              reg |-> RegionNew(x0, y0, AsU32(Max(WrapSub(x1, x0), 0)),
                                AsU32(Max(WrapSub(y1, y0), 0)))]

\* number of rows Rows / RowsMut yields: chunks_exact(width) of the buffer
\* (width > 0; chunks_exact panics on a chunk size of 0)
NumRows(r) == Len(r.pixels) \div r.width

\* row k (from 0) of chunks_exact(width)
Row(r, k) == SubSeq(r.pixels, k * r.width + 1, (k + 1) * r.width)

\* row[x0..x0 + w] stays inside a row of length len; otherwise the slice
\* expression (or the usize addition before it) panics
SliceOk(x0, w, len) ==
    /\ x0.blk = 0
    /\ w.blk = 0
    /\ w.n <= len
    /\ x0.n <= len - w.n

\* row[x0..] stays inside a row of length len
SliceFromOk(x0, len) == x0.blk = 0 /\ x0.n <= len

\* faulty variant of RowsAfterSkip: one row too many is skipped
RowsAfterSkip_OneMore(nrows, n) ==
    IF n.blk = 0 THEN {k \in 0 .. nrows - 1 : k > n.n} ELSE {}

\* rows left after Iterator::skip(n) on nrows rows: indices of the rows
RowsAfterSkip(nrows, n) ==
    IF n.blk = 0 THEN {k \in 0 .. nrows - 1 : k >= n.n} ELSE {}

\* ops::Source, composite_color: every pixel of the slice becomes clr
SourceCompositeColor(drow, clr) == [i \in 1 .. Len(drow) |-> clr]

\* ops::SourceOver, composite_color, on premultiplied linear 8-bit pixels
\* given as tuples of channels with alpha last: every channel becomes
\* src + dst * (MAX - src alpha)
SourceOverCompositeColor(drow, clr) ==
    LET one_minus_src_a == ChSub(8, ChMax(8), clr[Len(clr)])
    IN  [i \in 1 .. Len(drow) |->
            [j \in 1 .. Len(clr) |->
                ChAdd(8, clr[j], ChMul(8, drow[i][j], one_minus_src_a))]]

\* O::composite_color(drow, clr) for the operator op
BlendCompositeColor(op, drow, clr) ==
    IF op = "source_over" THEN SourceOverCompositeColor(drow, clr)
    ELSE SourceCompositeColor(drow, clr)

\* ops::Source, composite: pixels are copied pairwise, up to the shorter
\* slice
SourceComposite(drow, srow) ==
    [i \in 1 .. Len(drow) |-> IF i <= Len(srow) THEN srow[i] ELSE drow[i]]

\* faulty variant of ReplaceSlices: every pixel of a slice gets the new
\* value of the first pixel of the slice
ReplaceSlices_FirstOfSlice(r, sel, x0, w, new) ==
    [i \in 1 .. Len(r.pixels) |->
        LET k == (i - 1) \div r.width
            c == (i - 1) % r.width
        IN  IF k \in sel /\ k < NumRows(r) /\ c >= x0 /\ c < x0 + w
            THEN new[k][1]
            ELSE r.pixels[i]]

\* the buffer with columns x0 .. x0 + w - 1 of the rows in sel replaced;
\* new[k] is the new content of the slice of row k
ReplaceSlices(r, sel, x0, w, new) ==
    [i \in 1 .. Len(r.pixels) |->
        LET k == (i - 1) \div r.width
            c == (i - 1) % r.width
        IN  IF k \in sel /\ k < NumRows(r) /\ c >= x0 /\ c < x0 + w
            THEN new[k][(c - x0) + 1]
            ELSE r.pixels[i]]

\* Raster::composite_color with the operator op.  ok = FALSE: panic.
CompositeColorWith(dbg, r, reg0, clr, op) ==
    LET ri == RasterIntersection(dbg, r, reg0)
        reg == ri.reg
        width == RegionWidth(reg)
        height == RegionHeight(reg)
    IN  IF ~ri.ok THEN [ok |-> FALSE, raster |-> r]
        ELSE IF ~(U32Positive(width) /\ U32Positive(height))
        THEN [ok |-> TRUE, raster |-> r]
        ELSE IF r.width = 0 THEN [ok |-> FALSE, raster |-> r]
        ELSE
          LET skipped == RowsAfterSkip(NumRows(r), UsizeFromI32(reg.y))
              take == UsizeFromU32(height)
              sel == {k \in skipped :
                         take.blk > 0 \/ k - UsizeFromI32(reg.y).n < take.n}
              x0 == UsizeFromI32(reg.x)
              w == UsizeFromU32(width)
              new == [k \in sel |-> BlendCompositeColor(op,
                            SubSeq(Row(r, k), x0.n + 1, x0.n + w.n), clr)]
          IN  IF sel = {} THEN [ok |-> TRUE, raster |-> r]
              ELSE IF ~SliceOk(x0, w, r.width)
              THEN [ok |-> FALSE, raster |-> r]
              ELSE [ok |-> TRUE,
                    raster |-> Raster(r.width, r.height,
                                  ReplaceSlices(r, sel, x0.n, w.n, new))]

\* Raster::composite_color with the Source operator
CompositeColor(dbg, r, reg0, clr) ==
    CompositeColorWith(dbg, r, reg0, clr, "source")

\* Raster::composite_raster with the Source operator.  ok = FALSE: panic.
CompositeRaster(dbg, d, s, to0, from0) ==
    LET mtx == Min(to0.x, 0)
        mty == Min(to0.y, 0)
        mfx == Min(from0.x, 0)
        mfy == Min(from0.y, 0)
        tx == WrapAbs(mtx)
        ty == WrapAbs(mty)
        fx == WrapAbs(mfx)
        fy == WrapAbs(mfy)
        ti == RasterIntersection(dbg, d, to0)
        fi == RasterIntersection(dbg, s, from0)
        width == U32Min(RegionWidth(ti.reg), RegionWidth(fi.reg))
        height == U32Min(RegionHeight(ti.reg), RegionHeight(fi.reg))
        panic == [ok |-> FALSE, raster |-> d]
    IN  IF dbg /\ (AbsOverflows(mtx) \/ AbsOverflows(mty)
                     \/ AbsOverflows(mfx) \/ AbsOverflows(mfy))
        THEN panic
        ELSE IF ~ti.ok \/ ~fi.ok THEN panic
        ELSE IF ~(U32Positive(width) /\ U32Positive(height))
        THEN [ok |-> TRUE, raster |-> d]
        ELSE IF dbg /\ (AddOverflows(ti.reg.x, fx) \/ AddOverflows(ti.reg.y, fy)
                          \/ AddOverflows(fi.reg.x, tx)
                          \/ AddOverflows(fi.reg.y, ty))
        THEN panic
        ELSE IF s.width = 0 \/ d.width = 0 THEN panic
        ELSE
          LET to == RegionNew(WrapAdd(ti.reg.x, fx), WrapAdd(ti.reg.y, fy),
                              width, height)
              from == RegionNew(WrapAdd(fi.reg.x, tx), WrapAdd(fi.reg.y, ty),
                                width, height)
              sskip == UsizeFromI32(from.y)
              dskip == UsizeFromI32(to.y)
              take == UsizeFromU32(height)
              srows == RowsAfterSkip(NumRows(s), sskip)
              drows == {k \in RowsAfterSkip(NumRows(d), dskip) :
                           take.blk > 0 \/ k - dskip.n < take.n}
              \* zip: destination row k is paired with the source row at
              \* the same distance from its skip
              sel == {k \in drows : (k - dskip.n) + sskip.n \in srows}
              x0 == UsizeFromI32(to.x)
              w == UsizeFromU32(width)
              sx == UsizeFromI32(from.x)
              srow(k) == LET row == Row(s, (k - dskip.n) + sskip.n)
                         IN  SubSeq(row, sx.n + 1, Len(row))
              new == [k \in sel |-> SourceComposite(
                            SubSeq(Row(d, k), x0.n + 1, x0.n + w.n), srow(k))]
          IN  IF sel = {} THEN [ok |-> TRUE, raster |-> d]
              ELSE IF ~SliceOk(x0, w, d.width) \/ ~SliceFromOk(sx, s.width)
              THEN panic
              ELSE [ok |-> TRUE,
                    raster |-> Raster(d.width, d.height,
                                  ReplaceSlices(d, sel, x0.n, w.n, new))]

\* Raster::with_color.  ok = FALSE: the construction panicked (try_from
\* failed, multiplication overflow under overflow checks, or the
\* allocation of a sign-extended negative length failed).
WithColor(dbg, width, height, clr) ==
    LET w == TryFromOr0(width)
        h == TryFromOr0(height)
        len == UsizeFromI32(WrapMul(w, h))
        fail == [ok |-> FALSE, raster |-> Raster(0, 0, <<>>)]
    IN  IF ~TryFromOk(width) \/ ~TryFromOk(height) THEN fail
        ELSE IF dbg /\ MulOverflows(w, h) THEN fail
        ELSE IF len.blk # 0 THEN fail
        ELSE [ok |-> TRUE,
              raster |-> Raster(w, h, [i \in 1 .. len.n |-> clr])]

\* Raster::with_clear
WithClear(dbg, width, height) == WithColor(dbg, width, height, DefaultPixel)

\* Raster::with_pixels.  ok = FALSE: the construction panicked.
WithPixels(dbg, width, height, pixels) ==
    LET w == TryFromOr0(width)
        h == TryFromOr0(height)
        len == UsizeFromI32(WrapMul(w, h))
        fail == [ok |-> FALSE, raster |-> Raster(0, 0, <<>>)]
    IN  IF ~TryFromOk(width) \/ ~TryFromOk(height) THEN fail
        ELSE IF dbg /\ MulOverflows(w, h) THEN fail
        ELSE IF len # UsizeFromI32(Len(pixels)) THEN fail
        ELSE [ok |-> TRUE, raster |-> Raster(w, h, pixels)]

\* Raster::clear
Clear(r) ==
    Raster(r.width, r.height, [i \in 1 .. Len(r.pixels) |-> DefaultPixel])

\* faulty variant of PixelIndex: the debug assertion on x is missing
PixelIndex_NoAssertX(dbg, r, x, y) ==
    LET prod == WrapMul(r.width, y)
        i == UsizeFromI32(WrapAdd(prod, x))
        panic == [ok |-> FALSE, i |-> 0]
    IN  IF dbg /\ ~(y >= 0 /\ y < r.height) THEN panic
        ELSE IF dbg /\ (MulOverflows(r.width, y) \/ AddOverflows(prod, x))
        THEN panic
        ELSE IF i.blk # 0 \/ i.n >= Len(r.pixels) THEN panic
        ELSE [ok |-> TRUE, i |-> i.n]

\* the index computed by Raster::pixel and Raster::pixel_mut.
\* ok = FALSE: the call panicked (debug assertion, overflow check or the
\* bounds check of the buffer); otherwise i is the index (from 0) of the
\* buffer element the call addresses.
PixelIndex(dbg, r, x, y) ==
    LET prod == WrapMul(r.width, y)
        i == UsizeFromI32(WrapAdd(prod, x))
        panic == [ok |-> FALSE, i |-> 0]
    IN  IF dbg /\ ~(x >= 0 /\ x < r.width) THEN panic
        ELSE IF dbg /\ ~(y >= 0 /\ y < r.height) THEN panic
        ELSE IF dbg /\ (MulOverflows(r.width, y) \/ AddOverflows(prod, x))
        THEN panic
        ELSE IF i.blk # 0 \/ i.n >= Len(r.pixels) THEN panic
        ELSE [ok |-> TRUE, i |-> i.n]

----------------------------------------------------------------------------
(* Arguments explored.                                                     *)

\* region origins: around the raster and at both ends of the i32 range
Origins == {I32_MIN, I32_MAX} \cup (-MaxDim .. MaxDim)

\* region extents (u32): up to past the raster, and around i32::MAX
Extents ==
    {U32(0, n) : n \in 0 .. MaxDim + 1}
        \cup {U32(0, I32_MAX), U32(1, 0), U32(1, I32_MAX)}

\* origins and extents for the axis that is not varied widely
CoreOrigins == {-1, 0}

CoreExtents == {U32(0, 1), U32(0, MaxDim + 1)}

\* impl From<(i32, i32, u32, u32)> for Region, over the explored tuples:
\* one axis varies widely while the other stays near the raster
WideRegions ==
    {RegionNew(x, y, w, h) :
        x \in Origins, y \in CoreOrigins, w \in Extents, h \in CoreExtents}
    \cup
    {RegionNew(x, y, w, h) :
        x \in CoreOrigins, y \in Origins, w \in CoreExtents, h \in Extents}

\* the pixel buffer 1 + base, 2 + base, ... of len pixels
Ramp(base, len) == [i \in 1 .. len |-> base + i]

\* a pixel value that occurs in no initial raster
Colors == {99}

\* the state of `last` before any call
NoCall(r) ==
    [op |-> "none", ok |-> TRUE, to |-> NoRegion, from |-> NoRegion,
     clr |-> DefaultPixel, x |-> 0, y |-> 0, w |-> U32(0, 0),
     h |-> U32(0, 0), len |-> 0, pre |-> r, res |-> NoRegion, idx |-> 0]

\* no row iterator is in use
NoRows == [kind |-> "none", ok |-> TRUE, width |-> 0, rest |-> <<>>,
           yielded |-> <<>>, done |-> FALSE]

\* no pixel-level call was made yet
NoPixelCall == [op |-> "none"]

\* Rows::new / RowsMut::new: the iterator chunks_exact(width) (or
\* chunks_exact_mut) of the buffer.  It holds the part of the buffer not
\* yet yielded (a whole number of chunks); yielded is the history of the
\* rows it has yielded.  ok = FALSE: chunks_exact panicked, which it does
\* on a chunk size of 0.
RowsNew(kind, r) ==
    IF r.width = 0 THEN [NoRows EXCEPT !.kind = kind, !.ok = FALSE]
    ELSE [kind |-> kind, ok |-> TRUE, width |-> r.width,
          rest |-> SubSeq(r.pixels, 1,
                          Len(r.pixels) - (Len(r.pixels) % r.width)),
          yielded |-> <<>>, done |-> FALSE]

\* Rows::next / RowsMut::next: the next chunk, or None (done) when less
\* than a chunk is left
RowsNext(it) ==
    IF Len(it.rest) < it.width THEN [it EXCEPT !.done = TRUE]
    ELSE [it EXCEPT !.yielded = Append(@, SubSeq(it.rest, 1, it.width)),
                    !.rest = SubSeq(it.rest, it.width + 1, Len(it.rest))]

----------------------------------------------------------------------------
(* Calls.  Each action is one call on dst, with out the call's outcome; a  *)
(* call that panics leaves dst as it was and records ok = FALSE.           *)

\* r.composite_color(reg, clr, Source)
CompositeColorCall(Regs) ==
    \E reg \in Regs, clr \in Colors :
        \E out \in {CompositeColor(debug, dst, reg, clr)} :
            /\ dst' = out.raster
            /\ last' = [NoCall(dst) EXCEPT !.op = "composite_color",
                            !.ok = out.ok, !.to = reg, !.clr = clr]
            /\ nops' = nops + 1
            /\ UNCHANGED <<debug, src, rows, cvt>>

\* r.composite_color(reg, clr, SourceOver) on a raster of premultiplied
\* linear 8-bit pixels
CompositeColorOverCall(Regs, Clrs) ==
    \E reg \in Regs, clr \in Clrs :
        \E out \in {CompositeColorWith(debug, dst, reg, clr,
                                       "source_over")} :
            /\ dst' = out.raster
            /\ last' = [NoCall(dst) EXCEPT !.op = "composite_color_over",
                            !.ok = out.ok, !.to = reg, !.clr = clr]
            /\ nops' = nops + 1
            /\ UNCHANGED <<debug, src, rows, cvt>>

\* r.composite_raster(to, &src, from, Source)
CompositeRasterCall(ToRegs, FromRegs) ==
    \E to \in ToRegs, from \in FromRegs :
        \E out \in {CompositeRaster(debug, dst, src, to, from)} :
            /\ dst' = out.raster
            /\ last' = [NoCall(dst) EXCEPT !.op = "composite_raster",
                            !.ok = out.ok, !.to = to, !.from = from]
            /\ nops' = nops + 1
            /\ UNCHANGED <<debug, src, rows, cvt>>

\* r.intersection(reg)
RasterIntersectionCall(Regs) ==
    \E reg \in Regs :
        \E out \in {RasterIntersection(debug, dst, reg)} :
            /\ last' = [NoCall(dst) EXCEPT !.op = "raster_intersection",
                            !.ok = out.ok, !.to = reg, !.res = out.reg]
            /\ nops' = nops + 1
            /\ UNCHANGED <<debug, dst, src, rows, cvt>>

\* a.intersection(b)
RegionIntersectionCall(Regs) ==
    \E a \in Regs, b \in Regs :
        \E out \in {RegionIntersection(debug, a, b)} :
            /\ last' = [NoCall(dst) EXCEPT !.op = "region_intersection",
                            !.ok = out.ok, !.to = a, !.from = b,
                            !.res = out.reg]
            /\ nops' = nops + 1
            /\ UNCHANGED <<debug, dst, src, rows, cvt>>

\* a.intersection(())
RegionIntersectionUnitCall(Regs) ==
    \E a \in Regs :
        \E out \in {RegionIntersection(debug, a, RegionFromUnit)} :
            /\ last' = [NoCall(dst) EXCEPT !.op = "region_intersection_unit",
                            !.ok = out.ok, !.to = a, !.from = RegionFromUnit,
                            !.res = out.reg]
            /\ nops' = nops + 1
            /\ UNCHANGED <<debug, dst, src, rows, cvt>>

\* dst.rows() or dst.rows_mut(): a new iterator replaces the one in use
RowsCall ==
    \E kind \in {"rows", "rows_mut"} :
        /\ rows' = RowsNew(kind, dst)
        /\ UNCHANGED <<debug, dst, src, last, nops, cvt>>

\* next() on the iterator in use
RowsNextCall ==
    /\ rows.kind # "none"
    /\ rows.ok
    /\ rows' = RowsNext(rows)
    /\ UNCHANGED <<debug, dst, src, last, nops, cvt>>

\* the alpha modes and gamma modes of the pixel formats
AlphaModes == {"straight", "premultiplied"}

GammaModes == {"linear", "srgb"}

\* the explored formats: Rgb with 8- and 16-bit channels in every alpha
\* and gamma mode, Hwb (always linear) with 8-bit channels
Formats ==
    {Format("rgb", bits, alpha, gamma) :
        bits \in {8, 16}, alpha \in AlphaModes, gamma \in GammaModes}
    \cup {Format("hwb", 8, alpha, "linear") : alpha \in AlphaModes}

\* the explored channel values of a width: both ends, the smallest step,
\* and values inside the range
Samples(bits) ==
    IF bits = 8 THEN {0, 1, 64, 128, 255}
    ELSE {0, 1, 4660, 32768, 65535}

\* the explored pixels of a format
Pixels(S) ==
    IF S.model = "hwb"
    THEN {Hwb(h, w, b, a) : h \in Samples(S.bits), w \in Samples(S.bits),
                            b \in Samples(S.bits), a \in Samples(S.bits)}
    ELSE {Rgb(r, g, b, a) : r \in Samples(S.bits), g \in Samples(S.bits),
                            b \in Samples(S.bits), a \in Samples(S.bits)}

\* the explored conversions: the sRGB curve is modelled on 8-bit channels
\* only, so a conversion that applies gamma steps on 16-bit channels is
\* explored between linear formats only
Explored(S, D) ==
    \/ D.bits = 8
    \/ ConvertSteps(S, D) = <<>>
    \/ S.gamma = "linear" /\ D.gamma = "linear"

\* the record of p.convert::<D>() on a pixel p of format S
ConvertRecord(dbg, S, D, p) ==
    LET out == Convert(dbg, S, D, p)
    IN  [op |-> "convert", from |-> S, to |-> D, in |-> p, ok |-> out.ok,
         out |-> out.pixel, steps |-> out.steps]

\* the record of converting the result of the conversion c back to the
\* format it came from
ConvertBackRecord(dbg, c) ==
    LET out == Convert(dbg, c.to, c.from, c.out)
    IN  [op |-> "round_trip", from |-> c.from, to |-> c.to, in |-> c.in,
         mid |-> c.out, ok |-> out.ok, out |-> out.pixel]

\* p.convert::<D>()
ConvertCall ==
    /\ cvt.op = "none"
    /\ \E S \in Formats, D \in Formats :
           /\ Explored(S, D)
           /\ \E p \in Pixels(S) : cvt' = ConvertRecord(debug, S, D, p)
    /\ UNCHANGED <<debug, dst, src, last, nops, rows>>

\* the converted pixel is converted back to the source format
ConvertBackCall ==
    /\ cvt.op = "convert"
    /\ cvt.ok
    /\ Explored(cvt.to, cvt.from)
    /\ cvt' = ConvertBackRecord(debug, cvt)
    /\ UNCHANGED <<debug, dst, src, last, nops, rows>>

\* the other channel width
OtherBits(bits) == IF bits = 8 THEN 16 ELSE 8

\* a pixel p of format S that is to be converted to D and back
RoundTripInput(S, D, p) == [op |-> "input", from |-> S, to |-> D, in |-> p]

\* input of the width round trip: between the straight linear Rgb formats
\* of the two widths, the channel value x of the source width
WidthInput(bits, x) ==
    RoundTripInput(Format("rgb", bits, "straight", "linear"),
                   Format("rgb", OtherBits(bits), "straight", "linear"),
                   Rgb(x, ChMax(bits) - x, x, x))

\* the explored 16-bit color and alpha values of the alpha round trip: a
\* grid over the range, and the values next to its ends
Grid16 == {k * 4369 : k \in 0 .. 15} \cup {1, 2, 3, 255, 256, 257, 65534}

\* the explored color and alpha values of the alpha round trip: every
\* 8-bit value, and the 16-bit values of Grid16
AlphaValues(bits) == IF bits = 8 THEN 0 .. ChMax(bits) ELSE Grid16

\* input of the alpha round trip: from a straight linear Rgb format to the
\* premultiplied one of the same width, the color c at alpha a
AlphaInput(bits, c, a) ==
    RoundTripInput(Format("rgb", bits, "straight", "linear"),
                   Format("rgb", bits, "premultiplied", "linear"),
                   Rgb(c, ChMax(bits) - c, c, a))

\* the explored hues of the Hwb round trip: the ends of the range and one
\* hue inside each third of the circle
HwbHues == {0, 43, 128, 213, 255}

\* input of the Hwb round trip: an opaque 8-bit Hwb pixel, converted to
\* the 8-bit Rgb format of the same modes, which takes it through
\* Hwb::into_rgba, and back, which takes the result through Hwb::from_rgba
HwbInput(hue, whiteness, blackness) ==
    RoundTripInput(Format("hwb", 8, "straight", "linear"),
                   Format("rgb", 8, "straight", "linear"),
                   Hwb(hue, whiteness, blackness, ChMax(8)))

\* p.convert::<D>().convert::<S>() on the input chosen initially
RoundTripCall ==
    /\ cvt.op = "input"
    /\ cvt' = ConvertBackRecord(debug,
                  ConvertRecord(debug, cvt.from, cvt.to, cvt.in))
    /\ UNCHANGED <<debug, dst, src, last, nops, rows>>

\* Matte::into_rgba(p) and Matte::from_rgba of the result, for every 8-bit
\* Matte pixel and the 16-bit ones of Grid16; and Matte::from_rgba of an
\* arbitrary color (r, g, b) with the alpha of p
MatteCall ==
    /\ cvt.op = "none"
    /\ \E bits \in {8, 16} :
           \E a \in IF bits = 8 THEN 0 .. ChMax(bits) ELSE Grid16,
              r \in Samples(bits), g \in {0, ChMax(bits)},
              b \in {1, ChMax(bits)} :
               \E rgba \in {MatteIntoRgba(bits, Pix1(a))} :
                   cvt' = [op |-> "matte", bits |-> bits, in |-> Pix1(a),
                           rgba |-> rgba, out |-> MatteFromRgba(rgba),
                           any |-> <<r, g, b, a>>,
                           from_any |-> MatteFromRgba(<<r, g, b, a>>)]
    /\ UNCHANGED <<debug, dst, src, last, nops, rows>>

\* the largest buffer the exploration allocates
MaxCells == MaxDim * MaxDim

\* <<width, height>> (u32) passed to with_color: small ones, 2^16 squared
\* (2^32), products beyond i32::MAX, and i32::MAX + 1
DimArgs ==
    {<<U32(0, w), U32(0, h)>> : w \in 0 .. MaxDim, h \in 0 .. MaxDim}
        \cup {<<U32(0, 2 ^ 16), U32(0, 2 ^ 16)>>,
               <<U32(0, I32_MAX), U32(0, I32_MAX)>>,
               <<U32(0, I32_MAX), U32(0, 2)>>,
               <<U32(1, 0), U32(0, 1)>>, <<U32(0, 1), U32(1, 0)>>}

\* <<width, height>> (u32) passed to with_pixels
PixelsDimArgs ==
    {<<U32(0, w), U32(0, h)>> : w \in {1, MaxDim}, h \in {1, MaxDim}}
        \cup {<<U32(0, 2 ^ 16), U32(0, 2 ^ 16)>>, <<U32(1, 0), U32(0, 1)>>}

\* lengths of the buffers passed to with_pixels
PixelsLenArgs == {0, MaxDim, MaxCells}

\* the buffer length the constructors compute is one the exploration can
\* allocate (or the construction fails before allocating)
Allocatable(width, height) ==
    LET len == UsizeFromI32(WrapMul(TryFromOr0(width), TryFromOr0(height)))
    IN  len.blk # 0 \/ len.n <= MaxCells

\* dst = Raster::with_color(width, height, clr); a failed construction
\* returns no raster and dst stays
WithColorCall ==
    \E dim \in DimArgs, clr \in Colors :
        /\ Allocatable(dim[1], dim[2])
        /\ \E out \in {WithColor(debug, dim[1], dim[2], clr)} :
               /\ dst' = IF out.ok THEN out.raster ELSE dst
               /\ last' = [NoCall(dst) EXCEPT !.op = "with_color",
                               !.ok = out.ok, !.w = dim[1], !.h = dim[2],
                               !.clr = clr]
        /\ nops' = nops + 1
        /\ UNCHANGED <<debug, src, rows, cvt>>

\* dst = Raster::with_pixels(width, height, pixels)
WithPixelsCall ==
    \E dim \in PixelsDimArgs, len \in PixelsLenArgs :
        \E out \in {WithPixels(debug, dim[1], dim[2], Ramp(20, len))} :
            /\ dst' = IF out.ok THEN out.raster ELSE dst
            /\ last' = [NoCall(dst) EXCEPT !.op = "with_pixels",
                            !.ok = out.ok, !.w = dim[1], !.h = dim[2],
                            !.len = len]
            /\ nops' = nops + 1
            /\ UNCHANGED <<debug, src, rows, cvt>>

\* dst.clear()
ClearCall ==
    /\ dst' = Clear(dst)
    /\ last' = [NoCall(dst) EXCEPT !.op = "clear"]
    /\ nops' = nops + 1
    /\ UNCHANGED <<debug, src, rows, cvt>>

\* pixel coordinates <<x, y>>: inside the raster, just outside, and far
\* outside
Coords ==
    {<<x, y>> : x \in -1 .. MaxDim, y \in -1 .. MaxDim}
        \cup {<<I32_MAX, 0>>, <<0, I32_MAX>>, <<I32_MAX, I32_MAX>>}

\* dst.pixel(x, y): last.clr is the pixel returned
PixelCall ==
    \E at \in Coords :
        \E out \in {PixelIndex(debug, dst, at[1], at[2])} :
            /\ last' = [NoCall(dst) EXCEPT !.op = "pixel", !.ok = out.ok,
                            !.x = at[1], !.y = at[2], !.idx = out.i,
                            !.clr = IF out.ok THEN dst.pixels[out.i + 1]
                                    ELSE DefaultPixel]
            /\ nops' = nops + 1
            /\ UNCHANGED <<debug, dst, src, rows, cvt>>

\* *dst.pixel_mut(x, y) = clr
PixelMutCall ==
    \E at \in Coords, clr \in Colors :
        \E out \in {PixelIndex(debug, dst, at[1], at[2])} :
            /\ dst' = IF out.ok
                      THEN Raster(dst.width, dst.height,
                                  [dst.pixels EXCEPT ![out.i + 1] = clr])
                      ELSE dst
            /\ last' = [NoCall(dst) EXCEPT !.op = "pixel_mut", !.ok = out.ok,
                            !.x = at[1], !.y = at[2], !.idx = out.i,
                            !.clr = clr]
            /\ nops' = nops + 1
            /\ UNCHANGED <<debug, src, rows, cvt>>

----------------------------------------------------------------------------
(* Specification Spec: the life cycle of a raster.  dst starts as a clear  *)
(* raster and goes through up to MaxOps constructions and calls.           *)

\* the raster with_pixels builds from the ramp buffer of w * h pixels
RampRaster(base, w, h) == Raster(w, h, Ramp(base, w * h))

\* regions of the life cycle: inside, partly outside, outside, empty, ()
LifeRegions ==
    {RegionNew(o, o, e, e) :
        o \in {-1, 0, 1}, e \in {U32(0, 1), U32(0, MaxDim + 1)}}
    \cup {RegionFromUnit}

\* source regions of the life cycle: the whole source, and a part of it
LifeFromRegions == {RegionFromUnit, RegionNew(-1, 1, U32(0, 2), U32(0, 2))}

Init ==
    /\ debug \in BOOLEAN
    /\ dst \in {Raster(w, h, [i \in 1 .. w * h |-> DefaultPixel]) :
                   w \in 0 .. MaxDim, h \in 0 .. MaxDim}
    /\ src = RampRaster(0, MaxDim, MaxDim)
    /\ last = NoCall(dst)
    /\ nops = 0
    /\ rows = NoRows
    /\ cvt = NoPixelCall

Next ==
    /\ nops < MaxOps
    /\ \/ WithColorCall
       \/ WithPixelsCall
       \/ ClearCall
       \/ PixelCall
       \/ PixelMutCall
       \/ CompositeColorCall(LifeRegions)
       \/ CompositeRasterCall(LifeRegions, LifeFromRegions)

Spec == Init /\ [][Next]_vars

----------------------------------------------------------------------------
(* Specification SpecCall: one compositing or clipping call, from every    *)
(* pair of rasters (of any explored size and with distinct pixels) and     *)
(* with the arguments varied widely.                                       *)

\* regions of composite_raster: one axis varied, the other covering the
\* raster, and regions partly outside on both axes
BlitOrigins == {I32_MIN} \cup (-MaxDim .. 1)

BlitExtents == {U32(0, 0), U32(0, 1), U32(0, MaxDim + 1)}

BlitRegions ==
    {RegionNew(x, 0, w, U32(0, MaxDim + 1)) :
        x \in BlitOrigins, w \in BlitExtents}
    \cup
    {RegionNew(0, y, U32(0, MaxDim + 1), h) :
        y \in BlitOrigins, h \in BlitExtents}
    \cup
    {RegionNew(o, o, e, e) : o \in {-1, 1}, e \in {U32(0, 1), U32(0, 2)}}
    \cup {RegionFromUnit}

InitCall ==
    /\ debug \in BOOLEAN
    /\ dst \in {RampRaster(10, w, h) : w \in 0 .. MaxDim, h \in 0 .. MaxDim}
    /\ src \in {RampRaster(0, w, h) : w \in 0 .. MaxDim, h \in 0 .. MaxDim}
    /\ last = NoCall(dst)
    /\ nops = 0
    /\ rows = NoRows
    /\ cvt = NoPixelCall

NextCall ==
    /\ nops = 0
    /\ \/ CompositeColorCall(WideRegions)
       \/ CompositeRasterCall(BlitRegions, BlitRegions)
       \/ RasterIntersectionCall(WideRegions)

SpecCall == InitCall /\ [][NextCall]_vars

----------------------------------------------------------------------------
(* Specification SpecRegion: one Region::intersection call.                *)

InitRegion ==
    /\ debug \in BOOLEAN
    /\ dst = Raster(0, 0, <<>>)
    /\ src = Raster(0, 0, <<>>)
    /\ last = NoCall(dst)
    /\ nops = 0
    /\ rows = NoRows
    /\ cvt = NoPixelCall

NextRegion ==
    /\ nops = 0
    /\ \/ RegionIntersectionCall(WideRegions)
       \/ RegionIntersectionUnitCall(WideRegions)

SpecRegion == InitRegion /\ [][NextRegion]_vars

----------------------------------------------------------------------------
(* Specification SpecRows: row iterators over a raster of any explored     *)
(* size: rows() or rows_mut() is called, the iterator is advanced until it *)
(* ends, and the accessor may be called again at any point.                *)

InitRows ==
    /\ debug \in BOOLEAN
    /\ dst \in {RampRaster(b, w, h) :
                   b \in {0, 10}, w \in 0 .. MaxDim, h \in 0 .. MaxDim}
    /\ src = Raster(0, 0, <<>>)
    /\ last = NoCall(dst)
    /\ nops = 0
    /\ rows = NoRows
    /\ cvt = NoPixelCall

NextRows == RowsCall \/ RowsNextCall

SpecRows == InitRows /\ [][NextRows]_vars

InitConvert ==
    /\ debug \in BOOLEAN
    /\ dst = Raster(0, 0, <<>>)
    /\ src = Raster(0, 0, <<>>)
    /\ last = NoCall(dst)
    /\ nops = 0
    /\ rows = NoRows
    /\ cvt = NoPixelCall

NextConvert == ConvertCall \/ ConvertBackCall

SpecConvert == InitConvert /\ [][NextConvert]_vars

\* Graya8p pixels (gray, alpha): the pixels of the test
\* composite_color_gray8_over, both ends of the range, and values between
GrayaPixels ==
    <<<<32, 64>>, <<0, 0>>, <<255, 255>>, <<1, 255>>, <<96, 160>>,
      <<128, 128>>, <<64, 0>>, <<200, 250>>>>

\* a w x h raster of Graya8p pixels: GrayaPixels from position base on,
\* repeated
GrayaRaster(base, w, h) ==
    Raster(w, h, [i \in 1 .. w * h |->
                     GrayaPixels[((base + i - 1) % Len(GrayaPixels)) + 1]])

\* regions inside, across the edges of, and outside the raster
OverRegions ==
    {RegionNew(x, y, w, h) :
        x \in -1 .. 1, y \in -1 .. 1,
        w \in {U32(0, n) : n \in {0, 1, MaxDim + 1, MaxDim + 2}},
        h \in {U32(0, n) : n \in {0, 1, MaxDim + 1, MaxDim + 2}}}

InitOver ==
    /\ debug \in BOOLEAN
    /\ dst \in {GrayaRaster(0, w, h) : w \in 0 .. MaxDim, h \in 0 .. MaxDim}
           \cup {Raster(w, h, [i \in 1 .. w * h |-> GrayaPixels[1]]) :
                     w \in 0 .. MaxDim, h \in 0 .. MaxDim}
    /\ src = Raster(0, 0, <<>>)
    /\ last = NoCall(dst)
    /\ nops = 0
    /\ rows = NoRows
    /\ cvt = NoPixelCall

NextOver ==
    /\ nops = 0
    /\ CompositeColorOverCall(OverRegions,
           {GrayaPixels[i] : i \in 1 .. Len(GrayaPixels)})

SpecOver == InitOver /\ [][NextOver]_vars

InitRoundTrip ==
    /\ debug \in BOOLEAN
    /\ dst = Raster(0, 0, <<>>)
    /\ src = Raster(0, 0, <<>>)
    /\ last = NoCall(dst)
    /\ nops = 0
    /\ rows = NoRows
    /\ \E bits \in {8, 16} :
           \/ \E x \in 0 .. ChMax(bits) : cvt = WidthInput(bits, x)
           \/ \E c \in AlphaValues(bits), a \in AlphaValues(bits) :
                  cvt = AlphaInput(bits, c, a)

SpecRoundTrip == InitRoundTrip /\ [][RoundTripCall]_vars

SpecMatte == InitConvert /\ [][MatteCall]_vars

\* every 8-bit whiteness and blackness, at the hues of HwbHues
InitHwb ==
    /\ debug \in BOOLEAN
    /\ dst = Raster(0, 0, <<>>)
    /\ src = Raster(0, 0, <<>>)
    /\ last = NoCall(dst)
    /\ nops = 0
    /\ rows = NoRows
    /\ \E hue \in HwbHues, whiteness \in 0 .. ChMax(8),
          blackness \in 0 .. ChMax(8) :
           cvt = HwbInput(hue, whiteness, blackness)

SpecHwb == InitHwb /\ [][RoundTripCall]_vars

----------------------------------------------------------------------------
(* Vocabulary of the properties.  These definitions state what the claims  *)
(* say, in plain integers; they do not use the operators that model the    *)
(* code's clipping.                                                        *)

\* coordinate c lies in the span that starts at o and is e long (o + e may
\* exceed i32::MAX; the comparison is arranged so that nothing overflows)
InSpan(o, e, c) == o <= c /\ (IF o < 0 THEN o + e > c ELSE e > c - o)

\* cell (x, y) lies in region reg
InRegion(reg, x, y) ==
    InSpan(reg.x, reg.width, x) /\ InSpan(reg.y, reg.height, y)

\* the cells of raster r
Cells(r) == (0 .. r.width - 1) \X (0 .. r.height - 1)

\* the pixel of cell (x, y) of raster r
Cell(r, x, y) == r.pixels[y * r.width + x + 1]

\* the buffer of r has exactly width x height pixels (the true product)
WellFormed(r) ==
    /\ r.width >= 0
    /\ r.height >= 0
    /\ IF r.width = 0 \/ r.height = 0 THEN Len(r.pixels) = 0
       ELSE Len(r.pixels) % r.width = 0
            /\ Len(r.pixels) \div r.width = r.height

\* the first coordinate of span (o, e) clipped to 0 .. limit
ClipStart(o) == IF o < 0 THEN 0 ELSE o

\* the number of coordinates of span (o, e) that lie in 0 .. limit - 1
ClipLen(o, e, limit) == Cardinality({c \in 0 .. limit - 1 : InSpan(o, e, c)})

----------------------------------------------------------------------------
(* C1: after composite_color(region, C, Source) every cell of the raster   *)
(* that lies in the region holds C, every other cell holds its previous    *)
(* value, and the width and height are unchanged.                          *)

C1_CompositeColorClips ==
    last.op = "composite_color" =>
        /\ last.ok
        /\ dst.width = last.pre.width
        /\ dst.height = last.pre.height
        /\ Len(dst.pixels) = Len(last.pre.pixels)
        /\ \A c \in Cells(last.pre) :
              Cell(dst, c[1], c[2]) =
                  IF InRegion(last.to, c[1], c[2]) THEN last.clr
                  ELSE Cell(last.pre, c[1], c[2])

\* the region (1, -1, 3, 3) on a 2 x 2 raster sets exactly column 1
C1_Witness ==
    /\ last.op = "composite_color"
    /\ last.to = Region(1, -1, MaxDim + 1, MaxDim + 1)
    /\ last.pre.width = 2
    /\ last.pre.height = 2
    /\ Cell(dst, 0, 0) = Cell(last.pre, 0, 0)
    /\ Cell(dst, 1, 0) = last.clr
    /\ Cell(dst, 0, 1) = Cell(last.pre, 0, 1)
    /\ Cell(dst, 1, 1) = last.clr

----------------------------------------------------------------------------
(* C2: composite_raster completes without a panic for any rasters and any  *)
(* `to` / `from` regions.                                                  *)

C2_CompositeRasterCompletes ==
    last.op = "composite_raster" => last.ok

----------------------------------------------------------------------------
(* C3: composite_raster with Source pairs the two clipped regions          *)
(* left/top-aligned.  With T = `to` clipped to the destination, F = `from` *)
(* clipped to the source, w = min(T.width, F.width) and h = min(T.height,  *)
(* F.height), destination cell (T.x + i, T.y + j) receives source cell     *)
(* (F.x + i, F.y + j) for i < w, j < h, and no other cell changes.         *)

\* the pairing, for the call recorded in last
PairedLeftTopAligned ==
    LET tx == ClipStart(last.to.x)
        ty == ClipStart(last.to.y)
        fx == ClipStart(last.from.x)
        fy == ClipStart(last.from.y)
        w == Min(ClipLen(last.to.x, last.to.width, last.pre.width),
                 ClipLen(last.from.x, last.from.width, src.width))
        h == Min(ClipLen(last.to.y, last.to.height, last.pre.height),
                 ClipLen(last.from.y, last.from.height, src.height))
    IN  /\ dst.width = last.pre.width
        /\ dst.height = last.pre.height
        /\ Len(dst.pixels) = Len(last.pre.pixels)
        /\ \A c \in Cells(last.pre) :
              Cell(dst, c[1], c[2]) =
                  IF /\ tx <= c[1] /\ c[1] < tx + w
                     /\ ty <= c[2] /\ c[2] < ty + h
                  THEN Cell(src, fx + (c[1] - tx), fy + (c[2] - ty))
                  ELSE Cell(last.pre, c[1], c[2])

\* C3 as claimed: every composite_raster call that returns has paired the
\* clipped regions left/top-aligned
C3_PairsClippedRegions ==
    (last.op = "composite_raster" /\ last.ok) => PairedLeftTopAligned

\* C3 as amended: when neither `to` nor `from` has a negative origin, the
\* call returns and has paired the clipped regions left/top-aligned
C3_PairsNonNegativeOrigins ==
    (/\ last.op = "composite_raster"
     /\ last.to.x >= 0 /\ last.to.y >= 0
     /\ last.from.x >= 0 /\ last.from.y >= 0)
        => (last.ok /\ PairedLeftTopAligned)

\* to = (0, 0, 3, 3), from = (0, 1, 3, 3) on 2 x 2 rasters: the first
\* destination row receives the second source row, the second row stays
C3_Witness ==
    /\ last.op = "composite_raster"
    /\ last.ok
    /\ last.to = Region(0, 0, MaxDim + 1, MaxDim + 1)
    /\ last.from = Region(0, 1, MaxDim + 1, MaxDim + 1)
    /\ last.pre.width = 2 /\ last.pre.height = 2
    /\ src.width = 2 /\ src.height = 2
    /\ Cell(dst, 0, 0) = Cell(src, 0, 1)
    /\ Cell(dst, 1, 0) = Cell(src, 1, 1)
    /\ Cell(dst, 0, 1) = Cell(last.pre, 0, 1)
    /\ Cell(dst, 1, 1) = Cell(last.pre, 1, 1)

----------------------------------------------------------------------------
(* C4: a composite_color or composite_raster call whose clipped region is  *)
(* empty returns normally and leaves the destination raster unchanged.     *)

\* no cell of raster r lies in region reg
ClipsToNothing(reg, r) == \A c \in Cells(r) : ~InRegion(reg, c[1], c[2])

C4_EmptyRegionIsNoOp ==
    (\/ /\ last.op = "composite_color"
        /\ ClipsToNothing(last.to, last.pre)
     \/ /\ last.op = "composite_raster"
        /\ (ClipsToNothing(last.to, last.pre)
               \/ ClipsToNothing(last.from, src)))
        => (last.ok /\ dst = last.pre)

----------------------------------------------------------------------------
(* C5: every raster has 0 <= width, height <= i32::MAX and a buffer of     *)
(* exactly width x height pixels; a construction with a width or height    *)
(* above i32::MAX, or a with_pixels call whose buffer length differs from  *)
(* width x height, fails.                                                  *)

\* n is the product of the u32 values w and h (both at most i32::MAX)
IsProduct(n, w, h) ==
    IF w.low = 0 \/ h.low = 0 THEN n = 0
    ELSE n % w.low = 0 /\ n \div w.low = h.low

C5_RasterBufferInvariant ==
    /\ WellFormed(dst)
    /\ dst.width <= I32_MAX
    /\ dst.height <= I32_MAX
    /\ (/\ last.op \in {"with_color", "with_pixels"}
        /\ (last.w.top = 1 \/ last.h.top = 1)) => ~last.ok
    /\ (/\ last.op = "with_pixels"
        /\ last.w.top = 0 /\ last.h.top = 0
        /\ ~IsProduct(last.len, last.w, last.h)) => ~last.ok

----------------------------------------------------------------------------
(* C6: Raster::intersection returns a region R that lies inside the        *)
(* raster: 0 <= R.x, 0 <= R.y, R.x + R.width <= W and R.y + R.height <= H. *)

\* C6 as claimed
C6_IntersectionInsideRaster ==
    last.op = "raster_intersection" =>
        /\ last.ok
        /\ 0 <= last.res.x
        /\ 0 <= last.res.y
        /\ last.res.x <= dst.width
        /\ last.res.width <= dst.width - last.res.x
        /\ last.res.y <= dst.height
        /\ last.res.height <= dst.height - last.res.y

\* C6 as amended: the origin of R is never negative and the extent of R
\* never exceeds the raster's; whenever R has a positive width its right
\* edge is inside the raster, and likewise its bottom edge (an origin
\* beyond the raster is returned unclamped, with a zero extent)
C6_NonEmptyIntersectionInsideRaster ==
    last.op = "raster_intersection" =>
        /\ last.ok
        /\ 0 <= last.res.x
        /\ 0 <= last.res.y
        /\ 0 <= last.res.width /\ last.res.width <= dst.width
        /\ 0 <= last.res.height /\ last.res.height <= dst.height
        /\ last.res.width > 0 =>
               last.res.x <= dst.width - last.res.width
        /\ last.res.height > 0 =>
               last.res.y <= dst.height - last.res.height
        /\ last.res.width = ClipLen(last.to.x, last.to.width, dst.width)
        /\ last.res.height = ClipLen(last.to.y, last.to.height, dst.height)

\* a region with a negative origin that reaches into the raster is clamped
\* to a non-empty region at origin 0
C6_Witness ==
    /\ last.op = "raster_intersection"
    /\ last.to.x < 0
    /\ last.to.y < 0
    /\ last.res.x = 0
    /\ last.res.y = 0
    /\ last.res.width > 0
    /\ last.res.height > 0

----------------------------------------------------------------------------
(* C7: if regions a and b share no cell, a.intersection(b) returns a       *)
(* region with width = 0 or height = 0, and the call never fails.          *)

\* spans (o1, e1) and (o2, e2) share a coordinate: then the larger origin
\* lies in both
SpansOverlap(o1, e1, o2, e2) ==
    InSpan(o1, e1, Max(o1, o2)) /\ InSpan(o2, e2, Max(o1, o2))

\* regions a and b share a cell
ShareCell(a, b) ==
    /\ SpansOverlap(a.x, a.width, b.x, b.width)
    /\ SpansOverlap(a.y, a.height, b.y, b.height)

C7_DisjointGivesEmpty ==
    (/\ last.op \in {"region_intersection", "region_intersection_unit"}
     /\ ~ShareCell(last.to, last.from))
        => (last.ok /\ (last.res.width = 0 \/ last.res.height = 0))

----------------------------------------------------------------------------
(* C8: r.intersection(()) == r for every Region r, and intersecting r with *)
(* any region that contains it returns r.                                  *)

\* region b contains region a, whose right and bottom edges do not exceed
\* i32::MAX
ContainsWithin(b, a) ==
    /\ ~AddOverflows(a.x, a.width)
    /\ ~AddOverflows(a.y, a.height)
    /\ b.x <= a.x
    /\ b.y <= a.y
    /\ a.x + a.width <= SaturatingAdd(b.x, b.width)
    /\ a.y + a.height <= SaturatingAdd(b.y, b.height)

\* C8 as claimed: intersecting with () returns the region itself
C8_UnitIsIdentity ==
    last.op = "region_intersection_unit" =>
        (last.ok /\ last.res = last.to)

\* C8 as amended: () is the quadrant (0, 0, i32::MAX, i32::MAX); r
\* intersected with a region that contains it (with () when r has a
\* non-negative origin) is r, provided the right and bottom edges of r do
\* not exceed i32::MAX
C8_ContainingIsIdentity ==
    /\ (/\ last.op = "region_intersection_unit"
        /\ last.to.x >= 0
        /\ last.to.y >= 0
        /\ ~AddOverflows(last.to.x, last.to.width)
        /\ ~AddOverflows(last.to.y, last.to.height))
           => (last.ok /\ last.res = last.to)
    /\ (/\ last.op = "region_intersection"
        /\ ContainsWithin(last.from, last.to))
           => (last.ok /\ last.res = last.to)

\* a region of positive area in the non-negative quadrant is returned as is
C8_Witness ==
    /\ last.op = "region_intersection_unit"
    /\ last.to.x > 0
    /\ last.to.width > 0
    /\ last.to.height > 0
    /\ last.ok
    /\ last.res = last.to

----------------------------------------------------------------------------
(* C9: a.intersection(b) and b.intersection(a) are the same Region (or     *)
(* both fail), also for disjoint and empty regions.                        *)

C9_IntersectionCommutes ==
    last.op = "region_intersection" =>
        RegionIntersection(debug, last.from, last.to)
            = [ok |-> last.ok, reg |-> last.res]

\* two different overlapping regions whose intersection is neither of them
C9_Witness ==
    /\ last.op = "region_intersection"
    /\ last.ok
    /\ last.to # last.from
    /\ last.res.width > 0
    /\ last.res.height > 0
    /\ last.res # last.to
    /\ last.res # last.from

----------------------------------------------------------------------------
(* C10: pixel(x, y) and pixel_mut(x, y) with x outside [0, width) or y     *)
(* outside [0, height) terminate fatally and address no cell.              *)

\* the coordinates of the call recorded in last are outside the raster
OutOfRange ==
    ~(/\ 0 <= last.x /\ last.x < last.pre.width
      /\ 0 <= last.y /\ last.y < last.pre.height)

\* C10 as claimed
C10_OutOfRangeIsFatal ==
    (last.op \in {"pixel", "pixel_mut"} /\ OutOfRange) => ~last.ok

\* C10 as amended: with debug assertions the out-of-range call is fatal;
\* without them it is fatal only when width * y + x (in wrapping 32-bit
\* arithmetic) is no index of the buffer, and otherwise it addresses the
\* buffer element at that index
C10_OutOfRangeFatalInDebug ==
    last.op \in {"pixel", "pixel_mut"} =>
        LET i == WrapAdd(WrapMul(last.pre.width, last.y), last.x)
        IN  /\ (debug /\ OutOfRange) => ~last.ok
            /\ ~debug => (last.ok <=> (0 <= i /\ i < Len(last.pre.pixels)))
            /\ last.ok =>
                  /\ last.idx = i
                  /\ last.op = "pixel" =>
                         last.clr = last.pre.pixels[i + 1]
                  /\ last.op = "pixel_mut" =>
                         dst.pixels = [last.pre.pixels EXCEPT ![i + 1] = last.clr]
                  /\ dst.width = last.pre.width
                  /\ dst.height = last.pre.height
            /\ ~last.ok => dst = last.pre

\* without debug assertions, x = width and y = 0 on a raster of height 2
\* addresses cell (0, 1)
C10_Witness ==
    /\ last.op = "pixel_mut"
    /\ ~debug
    /\ last.pre.height = 2
    /\ last.pre.width > 0
    /\ last.x = last.pre.width
    /\ last.y = 0
    /\ last.ok
    /\ Cell(dst, 0, 1) = last.clr

----------------------------------------------------------------------------
(* C11: rows() and rows_mut() yield the rows of the raster.                *)

\* C11: for every raster, also one of zero width or zero height, rows()
\* and rows_mut() return an iterator (the call does not fail); the k-th row
\* it yields is the slice pixels[k * width .. (k + 1) * width]; it yields
\* no more than height rows and has yielded exactly height rows when it
\* ends; an iterator obtained by calling the accessor again starts over.
C11_RowsYieldHeightRows ==
    rows.kind # "none" =>
        /\ rows.ok
        /\ Len(rows.yielded) <= dst.height
        /\ rows.done => Len(rows.yielded) = dst.height
        /\ \A k \in 1 .. Len(rows.yielded) :
               rows.yielded[k] =
                   [i \in 1 .. dst.width |->
                       dst.pixels[(k - 1) * dst.width + i]]

----------------------------------------------------------------------------
(* C12 *)

\* C12: converting a pixel to its own format is the identity: the result
\* equals the pixel, and no gamma or alpha step is applied (Hwb goes
\* through its native channel layout)
C12_ConvertToSelfIsIdentity ==
    (cvt.op = "convert" /\ cvt.from = cvt.to) =>
        /\ cvt.ok
        /\ cvt.out = cvt.in
        /\ cvt.steps = <<>>

\* an Hwb pixel whose whiteness and blackness saturate, and whose hue and
\* alpha differ, converted to its own format
C12_Witness ==
    /\ cvt.op = "convert"
    /\ cvt.from = cvt.to
    /\ cvt.from.model = "hwb"
    /\ cvt.in.hue # cvt.in.alpha
    /\ cvt.in.whiteness + cvt.in.blackness > ChMax(cvt.from.bits)
    /\ cvt.out = cvt.in

----------------------------------------------------------------------------
(* C13 *)

\* the color channels a conversion works on, at the destination width, and
\* the alpha channel among them
WidenedChannels(c) ==
    LET into == IntoChannels(c.from, c.to, c.in)
    IN  [chan |-> [i \in 1 .. 4 |->
                      ChanFrom(c.from.bits, c.to.bits, into.chan[i])],
         alpha |-> into.alpha]

\* C13: when the alpha modes of source and destination differ, each color
\* channel is converted to the destination width, then taken to linear
\* gamma with the source gamma, decoded with the source alpha mode, encoded
\* with the destination alpha mode, and taken from linear gamma with the
\* destination gamma, in this order
C13_AlphaStepsInLinearGamma ==
    (cvt.op = "convert" /\ cvt.from.alpha # cvt.to.alpha) =>
        LET S == cvt.from
            D == cvt.to
            w == WidenedChannels(cvt)
            a == w.chan[w.alpha + 1]
            stepped ==
                [i \in 1 .. 4 |->
                    IF i <= w.alpha
                    THEN GammaFromLinear(D.gamma,
                             AlphaEncode(D.alpha, D.bits,
                                 AlphaDecode(S.alpha, D.bits,
                                     GammaToLinear(S.gamma, w.chan[i]), a),
                                 a))
                    ELSE w.chan[i]]
        IN  /\ cvt.steps = <<Step("to_linear", S.gamma),
                             Step("decode", S.alpha),
                             Step("encode", D.alpha),
                             Step("from_linear", D.gamma)>>
            /\ cvt.out = FromChannels(debug, D, S, stepped, w.alpha).pixel

\* a straight sRGB pixel converted to premultiplied sRGB: the result
\* differs from premultiplying the gamma-encoded value
C13_Witness ==
    /\ cvt.op = "convert"
    /\ cvt.from = Format("rgb", 8, "straight", "srgb")
    /\ cvt.to = Format("rgb", 8, "premultiplied", "srgb")
    /\ cvt.in = Rgb(64, 128, 255, 128)
    /\ cvt.out.red # ChMul(8, 64, 128)
    /\ cvt.out.green # ChMul(8, 128, 128)

----------------------------------------------------------------------------
(* C14 *)

\* some step of the conversion is one of ops
HasStep(c, ops) == \E i \in 1 .. Len(c.steps) : c.steps[i].op \in ops

\* the result of the conversion c when exactly the gamma steps, or no step
\* at all, are applied to the widened color channels
ResultOfGammaSteps(c, applied) ==
    LET w == WidenedChannels(c)
        stepped ==
            [i \in 1 .. 4 |->
                IF applied /\ i <= w.alpha
                THEN GammaFromLinear(c.to.gamma,
                         GammaToLinear(c.from.gamma, w.chan[i]))
                ELSE w.chan[i]]
    IN  FromChannels(debug, c.to, c.from, stepped, w.alpha).pixel

\* C14 as stated: the gamma steps are applied only when the gamma modes
\* differ, and the alpha steps only when the alpha modes differ
C14_StepOnlyWhenItsModeDiffers ==
    cvt.op = "convert" =>
        /\ HasStep(cvt, {"to_linear", "from_linear"}) =>
               cvt.from.gamma # cvt.to.gamma
        /\ HasStep(cvt, {"decode", "encode"}) =>
               cvt.from.alpha # cvt.to.alpha

\* C14, amended: the alpha steps are applied only when the alpha modes
\* differ, and the gamma steps only when the gamma modes or the alpha modes
\* differ; with equal alpha modes the result is that of the gamma steps
\* alone, and with both modes equal it is that of the width conversion
\* alone
C14_StepOnlyWhenSomeModeDiffers ==
    cvt.op = "convert" =>
        /\ HasStep(cvt, {"decode", "encode"}) =>
               cvt.from.alpha # cvt.to.alpha
        /\ HasStep(cvt, {"to_linear", "from_linear"}) =>
               cvt.from.gamma # cvt.to.gamma \/ cvt.from.alpha # cvt.to.alpha
        /\ cvt.from.alpha = cvt.to.alpha =>
               cvt.out = ResultOfGammaSteps(cvt,
                             cvt.from.gamma # cvt.to.gamma)
        /\ (cvt.from.alpha = cvt.to.alpha
               /\ cvt.from.gamma = cvt.to.gamma) => cvt.steps = <<>>

\* equal gamma modes and different alpha modes: a premultiplied sRGB pixel
\* converted to straight sRGB goes through the gamma steps, and the result
\* differs from dividing the gamma-encoded value by alpha
C14_Witness ==
    /\ cvt.op = "convert"
    /\ cvt.from = Format("rgb", 8, "premultiplied", "srgb")
    /\ cvt.to = Format("rgb", 8, "straight", "srgb")
    /\ cvt.in = Rgb(64, 1, 0, 128)
    /\ HasStep(cvt, {"to_linear", "from_linear"})
    /\ cvt.out.red # ChDiv(8, 64, 128)

----------------------------------------------------------------------------
(* C15 *)

\* r is src + dst x (MAX - a) / MAX saturating at MAX, the product taken in
\* the channel's arithmetic: within one unit of the exact quotient
IsSourceOver(r, s, d, a) ==
    \E m \in 0 .. ChMax(8) :
        /\ r = Min(s + m, ChMax(8))
        /\ (ChMax(8) * m) - (d * (ChMax(8) - a)) \in -ChMax(8) .. ChMax(8)

----------------------------------------------------------------------------
(* C16 *)

\* the conversion c and back changed the channel width only
WidthRoundTrip(c, bits) ==
    /\ c.op = "round_trip"
    /\ c.from.bits = bits
    /\ c.to = [c.from EXCEPT !.bits = OtherBits(bits)]

\* the four channels of an Rgb pixel
RgbChannels(p) == <<p.red, p.green, p.blue, p.alpha>>

\* C16 as stated: 8 -> 16 -> 8 bits returns every channel value exactly,
\* and 16 -> 8 -> 16 bits returns it with only its low 8 bits zeroed
C16_NarrowWidenZeroesLowBits ==
    /\ WidthRoundTrip(cvt, 8) => cvt.ok /\ cvt.out = cvt.in
    /\ WidthRoundTrip(cvt, 16) =>
           /\ cvt.ok
           /\ \A i \in 1 .. 4 :
                  RgbChannels(cvt.out)[i] =
                      RgbChannels(cvt.in)[i] - (RgbChannels(cvt.in)[i] % 256)

\* C16, amended: 8 -> 16 -> 8 bits returns every channel value exactly, and
\* 16 -> 8 -> 16 bits returns it with its high 8 bits preserved and its low
\* 8 bits replaced by a copy of the high 8 bits
C16_NarrowWidenReplicatesHighBits ==
    /\ WidthRoundTrip(cvt, 8) => cvt.ok /\ cvt.out = cvt.in
    /\ WidthRoundTrip(cvt, 16) =>
           /\ cvt.ok
           /\ \A i \in 1 .. 4 :
                  /\ RgbChannels(cvt.out)[i] \div 256 =
                         RgbChannels(cvt.in)[i] \div 256
                  /\ RgbChannels(cvt.out)[i] % 256 =
                         RgbChannels(cvt.in)[i] \div 256

\* 0x1234 narrowed to 0x12 and widened to 0x1212
C16_Witness ==
    /\ WidthRoundTrip(cvt, 16)
    /\ cvt.in.red = 4660
    /\ cvt.mid.red = 18
    /\ cvt.out.red = 4626

----------------------------------------------------------------------------
(* C17 *)

\* the conversion c took a straight pixel with alpha > 0 to the
\* premultiplied format of the same width and gamma, and back
AlphaRoundTrip(c) ==
    /\ c.op = "round_trip"
    /\ c.from.alpha = "straight"
    /\ c.to = [c.from EXCEPT !.alpha = "premultiplied"]
    /\ c.in.alpha > 0

\* every color channel of the result of c is within tol of the original
ColorWithin(c, tol) ==
    \A i \in 1 .. 3 :
        RgbChannels(c.out)[i] - RgbChannels(c.in)[i] \in -tol .. tol

\* C17 as stated: for every alpha a > 0, premultiplied encode followed by
\* decode at the same alpha returns a value within one unit of the color
C17_EncodeDecodeWithinOne ==
    AlphaRoundTrip(cvt) => cvt.ok /\ ColorWithin(cvt, 1)

\* C17, amended: for every alpha a > 0, premultiplied encode followed by
\* decode at the same alpha returns a value within ceiling(MAX / a) units of
\* the color, which is one unit at a = MAX
C17_EncodeDecodeWithinMaxOverAlpha ==
    AlphaRoundTrip(cvt) =>
        /\ cvt.ok
        /\ cvt.out.alpha = cvt.in.alpha
        /\ ColorWithin(cvt,
               (ChMax(cvt.from.bits) + cvt.in.alpha - 1) \div cvt.in.alpha)
        /\ cvt.in.alpha = ChMax(cvt.from.bits) => ColorWithin(cvt, 1)

\* the 8-bit color 255 at alpha 1 is encoded as 0 and decoded as 0
C17_Witness ==
    /\ AlphaRoundTrip(cvt)
    /\ cvt.from.bits = 8
    /\ cvt.in.alpha = 1
    /\ cvt.in.red = 255
    /\ cvt.mid.red = 0
    /\ cvt.out.red = 0

----------------------------------------------------------------------------
(* C18 *)

\* the conversion c took a premultiplied pixel of alpha 0 to a straight
\* format
ZeroAlphaToStraight(c) ==
    /\ c.op = "convert"
    /\ c.from.alpha = "premultiplied"
    /\ c.to.alpha = "straight"
    /\ c.in.alpha = 0

\* premultiplied decode at alpha 0 gives 0 for each of the channels chan
DecodesToZero(bits, chan) ==
    \A i \in 1 .. Len(chan) : AlphaDecode("premultiplied", bits, chan[i], 0) = 0

\* the channels of a pixel of format S that are not its alpha
ColorChannels(S, p) ==
    IF S.model = "hwb" THEN <<p.hue, p.whiteness, p.blackness>>
    ELSE <<p.red, p.green, p.blue>>

\* C18 as stated: decoding a premultiplied color at alpha 0 yields zero,
\* and converting a premultiplied pixel of alpha 0 to a straight format
\* succeeds and gives zero color channels
C18_ZeroAlphaGivesZeroChannels ==
    ZeroAlphaToStraight(cvt) =>
        /\ cvt.ok
        /\ DecodesToZero(cvt.to.bits, ColorChannels(cvt.from, cvt.in))
        /\ ColorChannels(cvt.to, cvt.out) = <<0, 0, 0>>

\* C18, amended: decoding a premultiplied color at alpha 0 yields zero, and
\* converting a premultiplied pixel of alpha 0 to a straight format
\* succeeds and gives zero red, green and blue, which an Rgb format stores
\* as such and an Hwb format stores as hue 0, whiteness 0, blackness MAX
C18_ZeroAlphaGivesBlack ==
    ZeroAlphaToStraight(cvt) =>
        /\ cvt.ok
        /\ DecodesToZero(cvt.to.bits, ColorChannels(cvt.from, cvt.in))
        /\ cvt.out.alpha = 0
        /\ ColorChannels(cvt.to, cvt.out) =
               IF cvt.to.model = "hwb" THEN <<0, 0, ChMax(cvt.to.bits)>>
               ELSE <<0, 0, 0>>

\* a premultiplied sRGB pixel with nonzero color and alpha 0 becomes the
\* straight pixel (0, 0, 0, 0)
C18_Witness ==
    /\ ZeroAlphaToStraight(cvt)
    /\ cvt.from = Format("rgb", 8, "premultiplied", "srgb")
    /\ cvt.to = Format("rgb", 8, "straight", "linear")
    /\ cvt.in = Rgb(255, 64, 1, 0)
    /\ cvt.out = Rgb(0, 0, 0, 0)

----------------------------------------------------------------------------
(* C19 *)

\* the conversion c is between the 8-bit linear formats of models from and
\* to, of one alpha mode, so that no alpha or gamma step applies
ModelConversion(c, from, to) ==
    /\ c.op = "convert"
    /\ c.from = Format(from, 8, c.from.alpha, "linear")
    /\ c.to = Format(to, 8, c.from.alpha, "linear")

\* in the conversion c, the color cin (hue, whiteness, blackness or red,
\* green, blue) becomes the color cout
Gives(c, cin, cout) ==
    ColorChannels(c.from, c.in) = cin =>
        ColorChannels(c.to, c.out) = cout

\* C19: an 8-bit Hwb pixel of hue 0 converts to the RGB color
\* (v, v - chroma, v - chroma), where (w', b') are the clamped whiteness and
\* blackness, v = 255 - b' and chroma = v - w' saturating at 0; the
\* conversions of hwb.rs's tests give the values the claim lists
C19_HwbHueZeroToRgb ==
    /\ (ModelConversion(cvt, "hwb", "rgb") /\ cvt.in.hue = 0) =>
           LET wb == WhitenessBlackness(8, cvt.in)
               v == 255 - wb.blackness
               chroma == Max(v - wb.whiteness, 0)
           IN  /\ cvt.ok
               /\ cvt.out = Rgb(v, v - chroma, v - chroma, cvt.in.alpha)
               /\ wb.whiteness + wb.blackness <= 255 =>
                      cvt.out = Rgb(255 - wb.blackness, wb.whiteness,
                                    wb.whiteness, cvt.in.alpha)
               /\ Gives(cvt, <<0, 128, 128>>, <<127, 127, 127>>)
               /\ Gives(cvt, <<0, 255, 255>>, <<127, 127, 127>>)
               /\ Gives(cvt, <<0, 128, 255>>, <<85, 85, 85>>)
               /\ Gives(cvt, <<0, 0, 0>>, <<255, 0, 0>>)
    /\ ModelConversion(cvt, "rgb", "hwb") =>
           /\ cvt.ok
           /\ Gives(cvt, <<255, 0, 0>>, <<0, 0, 0>>)
           /\ Gives(cvt, <<255, 64, 64>>, <<0, 64, 0>>)

\* Hwb(0, 255, 255), whose whiteness and blackness are clamped to
\* (128, 128), converts to the gray (127, 127, 127)
C19_Witness ==
    /\ ModelConversion(cvt, "hwb", "rgb")
    /\ cvt.in = Hwb(0, 255, 255, 255)
    /\ WhitenessBlackness(8, cvt.in) = [whiteness |-> 128, blackness |-> 128]
    /\ cvt.out = Rgb(127, 127, 127, 255)

----------------------------------------------------------------------------
(* C20 *)

\* C20: for the alpha-only Matte model, into_rgba(p) is (MAX, MAX, MAX,
\* alpha of p); from_rgba depends only on the alpha of its argument, whatever
\* its red, green and blue; and from_rgba(into_rgba(p)) = p
C20_MatteKeepsAlphaOnly ==
    cvt.op = "matte" =>
        /\ cvt.rgba = <<ChMax(cvt.bits), ChMax(cvt.bits), ChMax(cvt.bits),
                        cvt.in.one>>
        /\ cvt.any[4] = cvt.rgba[4] => cvt.from_any = cvt.out
        /\ cvt.out = cvt.in

\* a Matte pixel that is not MAX, and a color that differs from white in
\* every channel but has the pixel's alpha
C20_Witness ==
    /\ cvt.op = "matte"
    /\ cvt.bits = 8
    /\ cvt.in = Pix1(148)
    /\ cvt.rgba = <<255, 255, 255, 148>>
    /\ cvt.any = <<64, 0, 1, 148>>
    /\ cvt.from_any = Pix1(148)
    /\ cvt.out = cvt.in

----------------------------------------------------------------------------
(* C21 *)

\* the conversion c took an Hwb pixel through Hwb::into_rgba and the result
\* back through Hwb::from_rgba
HwbRoundTrip(c) ==
    /\ c.op = "round_trip"
    /\ c.from.model = "hwb"
    /\ c.to.model = "rgb"

\* x is n * MAX / d rounded to a nearest channel value
IsRescaled(x, n, d) ==
    (2 * d * x) - (2 * ChMax(8) * n) \in -d .. d

\* C21: for all 8-bit whiteness and blackness, the pair (w', b') that
\* Hwb::whiteness_blackness returns has w' + b' <= MAX; it is the input
\* pair when whiteness + blackness <= MAX, and otherwise the input pair
\* rescaled by the same factor MAX / (whiteness + blackness)
C21_ClampedSumWithinMax ==
    HwbRoundTrip(cvt) =>
        LET w == cvt.in.whiteness
            b == cvt.in.blackness
            wb == WhitenessBlackness(8, cvt.in)
        IN  /\ wb.whiteness + wb.blackness <= ChMax(8)
            /\ w + b <= ChMax(8) => wb = [whiteness |-> w, blackness |-> b]
            /\ w + b > ChMax(8) =>
                   /\ IsRescaled(wb.whiteness, w, w + b)
                   /\ IsRescaled(wb.blackness, b, w + b)

----------------------------------------------------------------------------
(* C22 *)

\* the result of the same-type path on the input of the conversion c
NativePath(c) == Convert(debug, c.from, c.from, c.in).pixel

----------------------------------------------------------------------------
(* C23 *)

\* C23: composite_raster changes no destination cell outside the `to`
\* region: the raster keeps its dimensions, and every cell that does not lie
\* in `to` keeps the value it had before the call
C23_ChangesOnlyInsideTo ==
    last.op = "composite_raster" =>
        /\ dst.width = last.pre.width
        /\ dst.height = last.pre.height
        /\ Len(dst.pixels) = Len(last.pre.pixels)
        /\ \A c \in Cells(last.pre) :
               ~InRegion(last.to, c[1], c[2]) =>
                   Cell(dst, c[1], c[2]) = Cell(last.pre, c[1], c[2])

----------------------------------------------------------------------------
(* C24 *)

\* the channel array of the conversion c after the steps of c were applied
\* to the channels before the alpha index only
SteppedBeforeAlpha(c) ==
    LET w == WidenedChannels(c)
    IN  [i \in 1 .. 4 |->
            IF i <= w.alpha
            THEN ApplySteps(c.steps, c.to.bits, w.chan[i],
                            w.chan[w.alpha + 1])
            ELSE w.chan[i]]

\* C24: in every conversion only the channels before the alpha index go
\* through the gamma and alpha steps: the result is built from the array
\* whose alpha channel and later channels (hue in the native layout of Hwb)
\* are only converted to the destination width, and the alpha of the result
\* is the source alpha converted to the destination width
C24_AlphaOnlyWidthConverted ==
    cvt.op = "convert" =>
        LET w == WidenedChannels(cvt)
        IN  /\ cvt.out.alpha =
                   ChanFrom(cvt.from.bits, cvt.to.bits, cvt.in.alpha)
            /\ cvt.out = FromChannels(debug, cvt.to, cvt.from,
                                      SteppedBeforeAlpha(cvt), w.alpha).pixel
            /\ (cvt.from.model = "hwb" /\ cvt.from = cvt.to) =>
                   /\ w.alpha = 2
                   /\ cvt.out.hue = cvt.in.hue

\* a straight 8-bit pixel of alpha 128 premultiplied at 16 bits: the color
\* channels are scaled, the alpha is only widened; and an Hwb pixel in its
\* native layout whose hue follows the alpha channel
C24_Witness ==
    /\ cvt.op = "convert"
    /\ \/ /\ cvt.from = Format("rgb", 8, "straight", "linear")
          /\ cvt.to = Format("rgb", 16, "premultiplied", "linear")
          /\ cvt.in = Rgb(64, 128, 255, 128)
          /\ cvt.out.alpha = 32896
          /\ cvt.out.red < ChanFrom(8, 16, 64)
       \/ /\ cvt.from = Format("hwb", 8, "premultiplied", "linear")
          /\ cvt.to = cvt.from
          /\ cvt.in = Hwb(64, 1, 128, 255)
          /\ cvt.out.hue = 64

====
